---------------------------- MODULE Spec2Model ----------------------------
(***************************************************************************)
(* Model of the keyboard teleoperation controller with smooth              *)
(* acceleration, src/Jetson_ai_drive/basic_drive_cont.py                   *)
(* (class SimpleRoverController): the key-state registry, the input        *)
(* thread, the target resolver, the velocity smoother, the control loop    *)
(* and the shutdown ramp.                                                  *)
(***************************************************************************)
EXTENDS Integers, Sequences, FiniteSets, TLC

(***************************************************************************)
(* NUMBERS.  The speeds are Python floats, i.e. IEEE-754 binary64 values   *)
(* combined with +, -, abs and comparisons only.  Every speed the program  *)
(* can hold is an integer multiple of 2^-58 of magnitude at most 1, so a   *)
(* speed v is represented exactly by the integer v * 2^58, written in      *)
(* sign-and-magnitude form with the magnitude split in two limbs of 29     *)
(* bits:  <<s, h, l>>  stands for  s * (h * 2^29 + l) * 2^-58,             *)
(* s \in {-1, 0, 1}.  FAdd rounds its exact result to the 53-bit           *)
(* significand of binary64 (round to nearest, ties to even), as the        *)
(* hardware does.                                                          *)
(***************************************************************************)
Limb == 2^29

FZero == <<0, 0, 0>>

FNeg(a) == <<0 - a[1], a[2], a[3]>>

FAbs(a) == <<(IF a[1] = 0 THEN 0 ELSE 1), a[2], a[3]>>

\* magnitude comparison of <<h, l>> pairs
MagLt(h1, l1, h2, l2) == h1 < h2 \/ (h1 = h2 /\ l1 < l2)

\* a < b
FLt(a, b) ==
    IF a[1] # b[1] THEN a[1] < b[1]
    ELSE IF a[1] = 1 THEN MagLt(a[2], a[3], b[2], b[3])
    ELSE IF a[1] = -1 THEN MagLt(b[2], b[3], a[2], a[3])
    ELSE FALSE

FLe(a, b) == a = b \/ FLt(a, b)

FGt(a, b) == FLt(b, a)

FGe(a, b) == FLe(b, a)

\* The spacing of binary64 values, in units of 2^-58, in the binade of a
\* magnitude whose high limb is h (h = 2^28 is 0.5, h = 2^29 is 1.0).
Ulp(h) ==
    IF h >= 2^29 THEN 64
    ELSE IF h >= 2^28 THEN 32
    ELSE IF h >= 2^27 THEN 16
    ELSE IF h >= 2^26 THEN 8
    ELSE IF h >= 2^25 THEN 4
    ELSE IF h >= 2^24 THEN 2
    ELSE 1

\* Round the magnitude h * 2^29 + l to a multiple of its binade's spacing,
\* to nearest, ties to the even significand; the result carries sign s.
FRound(s, h, l) ==
    LET u  == Ulp(h)
        q  == l \div u
        r  == l % u
        up == (2 * r > u) \/ (2 * r = u /\ q % 2 = 1)
        l2 == (IF up THEN q + 1 ELSE q) * u
        h3 == IF l2 = Limb THEN h + 1 ELSE h
        l3 == IF l2 = Limb THEN 0 ELSE l2
    IN  IF h3 = 0 /\ l3 = 0 THEN FZero ELSE <<s, h3, l3>>

\* a + b in binary64
FAdd(a, b) ==
    IF a[1] = 0 THEN b
    ELSE IF b[1] = 0 THEN a
    ELSE IF a[1] = b[1] THEN
        LET l == a[3] + b[3]
        IN  FRound(a[1], a[2] + b[2] + (l \div Limb), l % Limb)
    ELSE IF a[2] = b[2] /\ a[3] = b[3] THEN FZero
    ELSE
        LET big   == IF MagLt(a[2], a[3], b[2], b[3]) THEN b ELSE a
            small == IF MagLt(a[2], a[3], b[2], b[3]) THEN a ELSE b
            l     == big[3] - small[3]
        IN  IF l < 0
            THEN FRound(big[1], big[2] - small[2] - 1, l + Limb)
            ELSE FRound(big[1], big[2] - small[2], l)

\* a - b in binary64
FSub(a, b) == FAdd(a, FNeg(b))


(***************************************************************************)
(* CONFIGURATION (SimpleRoverController.__init__)                          *)
(***************************************************************************)
MAX_SPEED == <<1, 2^28, 0>>                        \* 0.5

MIN_TURN_SPEED == <<1, 2^28, 0>>                   \* 0.5

MAX_STEER == <<1, 107374182, 214748368>>           \* 0.2

LINEAR_ACCEL == <<1, 10737418, 128849019>>         \* 0.02

ANGULAR_ACCEL == <<1, 26843545, 322122548>>        \* 0.05

\* The literal 0.01 of lines 142 and 267 lies halfway between two multiples
\* of 2^-58; Epsilon is the lower one, so that for every speed x of the
\* model  x > 0.01  is  FGt(x, Epsilon).
Epsilon == <<1, 5368709, 64424509>>

(***************************************************************************)
(* TIME.  time.time() is read at lines 65, 73, 237 and 244, and the        *)
(* program only ever uses differences of two readings (lines 80 and 245).  *)
(* Time is counted in quanta of 50 ms and kept relative to the present: a  *)
(* stored reading t <= 0 stands for "now + t", the clock itself reads Now, *)
(* and the passing of one quantum lowers every stored reading by one.  A   *)
(* reading is not lowered below Oldest: both comparisons already give      *)
(* their final answer there.                                               *)
(***************************************************************************)
KEY_TIMEOUT == 3

TICK_INTERVAL == 1

Now == 0

Oldest == Now - KEY_TIMEOUT

Aged(t, d) == IF t - d < Oldest THEN Oldest ELSE t - d

(***************************************************************************)
(* KEY-STATE REGISTRY                                                      *)
(***************************************************************************)
MoveKeys == {"w", "a", "s", "d", " "}

\* mutant of KeyFresh: an entry exactly KEY_TIMEOUT old still counts
KeyFreshInclusive(current_time, timestamp) ==
    current_time - timestamp <= KEY_TIMEOUT

\* line 80: an entry counts as a recent press
KeyFresh(current_time, timestamp) == current_time - timestamp < KEY_TIMEOUT

\* get_active_keys, the body of "with self._lock": the active keys and the
\* registry with the expired entries deleted
get_active_keys(reg, current_time) ==
    LET active_keys  == {key \in DOMAIN reg : KeyFresh(current_time, reg[key])}
        expired_keys == {key \in DOMAIN reg : ~KeyFresh(current_time, reg[key])}
    IN  [active |-> active_keys,
         reg    |-> [key \in (DOMAIN reg) \ expired_keys |-> reg[key]]]

(***************************************************************************)
(* TARGET RESOLVER (update_targets).  A velocity state is a record of the  *)
(* four fields linear_speed, angular_speed, target_linear, target_angular. *)
(***************************************************************************)
Velocity(l, a, tl, ta) ==
    [linear_speed |-> l, angular_speed |-> a,
     target_linear |-> tl, target_angular |-> ta]

\* mutant of ResetTargets: every resolution halts the live velocity as well
ResetTargetsHalt(v) ==
    [v EXCEPT !.target_linear = FZero, !.target_angular = FZero,
              !.linear_speed = FZero, !.angular_speed = FZero]

\* mutant of ResetTargets: the targets of the last resolution are kept
ResetTargetsKeep(v) == v

\* lines 95-97
ResetTargets(v) ==
    [v EXCEPT !.target_linear = FZero, !.target_angular = FZero]

\* mutant of EmergencyStop: only the targets are zeroed, the stop is ramped
EmergencyStopTargetsOnly(v) ==
    [v EXCEPT !.target_linear = FZero, !.target_angular = FZero]

\* lines 101-105
EmergencyStop(v) ==
    [v EXCEPT !.target_linear = FZero, !.target_angular = FZero,
              !.linear_speed = FZero, !.angular_speed = FZero]

\* lines 109-116
LongitudinalIntent(active_keys, v) ==
    IF "w" \in active_keys THEN [v EXCEPT !.target_linear = MAX_SPEED]
    ELSE IF "s" \in active_keys THEN [v EXCEPT !.target_linear = FNeg(MAX_SPEED)]
    ELSE v

\* mutant of TurnIntent: right is tested before left
TurnIntentRightFirst(active_keys, v) ==
    IF "d" \in active_keys THEN [v EXCEPT !.target_angular = MAX_STEER]
    ELSE IF "a" \in active_keys THEN [v EXCEPT !.target_angular = FNeg(MAX_STEER)]
    ELSE v

\* lines 119-125
TurnIntent(active_keys, v) ==
    IF "a" \in active_keys THEN [v EXCEPT !.target_angular = FNeg(MAX_STEER)]
    ELSE IF "d" \in active_keys THEN [v EXCEPT !.target_angular = MAX_STEER]
    ELSE v

\* mutant of TurnBoost: no minimum speed is applied to a turn
TurnBoostNone(active_keys, v) == v

\* lines 127-137
TurnBoost(active_keys, v) ==
    LET moving_forward  == "w" \in active_keys
        moving_backward == ~moving_forward /\ "s" \in active_keys
        turning         == "a" \in active_keys \/ "d" \in active_keys
    IN  IF turning
        THEN IF ~moving_forward /\ ~moving_backward
             THEN [v EXCEPT !.target_linear = MIN_TURN_SPEED]
             ELSE IF moving_forward
             THEN [v EXCEPT !.target_linear = MIN_TURN_SPEED]
             ELSE IF moving_backward
             THEN [v EXCEPT !.target_linear = FNeg(MIN_TURN_SPEED)]
             ELSE v
        ELSE v

\* mutant of update_targets: with no key active the old targets are kept
update_targetsIdleKeeps(active_keys, v) ==
    IF active_keys = {} THEN v
    ELSE IF " " \in active_keys
    THEN EmergencyStop(ResetTargets(v))
    ELSE TurnBoost(active_keys,
             TurnIntent(active_keys,
                 LongitudinalIntent(active_keys, ResetTargets(v))))

\* update_targets after its call of get_active_keys
update_targets(active_keys, v) ==
    IF " " \in active_keys
    THEN EmergencyStop(ResetTargets(v))
    ELSE TurnBoost(active_keys,
             TurnIntent(active_keys,
                 LongitudinalIntent(active_keys, ResetTargets(v))))

(***************************************************************************)
(* VELOCITY SMOOTHER (smooth_speed_update)                                 *)
(***************************************************************************)
\* mutant of Approach: the snap to the target is missing
ApproachNoSnap(speed, target, accel) ==
    IF FLt(speed, target) THEN FAdd(speed, accel)
    ELSE IF FGt(speed, target) THEN FSub(speed, accel)
    ELSE speed

\* mutant of Approach: the branch that lowers the speed is missing
ApproachNoDecel(speed, target, accel) ==
    IF FLt(FAbs(FSub(target, speed)), accel) THEN target
    ELSE IF FLt(speed, target) THEN FAdd(speed, accel)
    ELSE speed

\* mutant of Approach: the snap happens within two steps of the target
ApproachFarSnap(speed, target, accel) ==
    IF FLt(FAbs(FSub(target, speed)), FAdd(accel, accel)) THEN target
    ELSE IF FLt(speed, target) THEN FAdd(speed, accel)
    ELSE IF FGt(speed, target) THEN FSub(speed, accel)
    ELSE speed

\* The three-way step of lines 158-163, 166-171 and 174-179: snap to the
\* target when the gap is below accel, else move by accel towards it.
Approach(speed, target, accel) ==
    IF FLt(FAbs(FSub(target, speed)), accel) THEN target
    ELSE IF FLt(speed, target) THEN FAdd(speed, accel)
    ELSE IF FGt(speed, target) THEN FSub(speed, accel)
    ELSE speed

\* mutant of SmoothLinear: a turn gets no instant jump
SmoothLinearNoJump(v) == Approach(v.linear_speed, v.target_linear, LINEAR_ACCEL)

\* mutant of SmoothLinear: the linear speed jumps to its target, turning or not
SmoothLinearInstant(v) == v.target_linear

\* lines 142-171
SmoothLinear(v) ==
    LET is_turning == FGt(FAbs(v.target_angular), Epsilon)
    IN  IF is_turning
        THEN IF FGe(FAbs(v.target_linear), MIN_TURN_SPEED)
             THEN v.target_linear
             ELSE IF FGt(v.target_linear, FZero)
                     /\ FLt(v.linear_speed, MIN_TURN_SPEED)
             THEN MIN_TURN_SPEED
             ELSE IF FLt(v.target_linear, FZero)
                     /\ FGt(v.linear_speed, FNeg(MIN_TURN_SPEED))
             THEN FNeg(MIN_TURN_SPEED)
             ELSE Approach(v.linear_speed, v.target_linear, LINEAR_ACCEL)
        ELSE Approach(v.linear_speed, v.target_linear, LINEAR_ACCEL)

\* mutant of SmoothAngular: the snap to the target is missing
SmoothAngularNoSnap(v) ==
    ApproachNoSnap(v.angular_speed, v.target_angular, ANGULAR_ACCEL)

\* mutant of SmoothAngular: the angular speed jumps to its target
SmoothAngularInstant(v) == v.target_angular

\* lines 173-179
SmoothAngular(v) == Approach(v.angular_speed, v.target_angular, ANGULAR_ACCEL)

smooth_speed_update(v) ==
    [v EXCEPT !.linear_speed = SmoothLinear(v),
              !.angular_speed = SmoothAngular(v)]

\* update_robot: the pair handed to base_velocity_ctrl
update_robot(v) == <<v.linear_speed, v.angular_speed>>

\* line 267: the shutdown ramp goes on
RampContinues(v) ==
    FGt(FAbs(v.linear_speed), Epsilon) \/ FGt(FAbs(v.angular_speed), Epsilon)

(***************************************************************************)
(* STATE                                                                   *)
(***************************************************************************)
VARIABLES
    linear_speed, angular_speed,    \* the live velocity
    target_linear, target_angular,  \* the targets
    running,                        \* self.running
    stop_event,                     \* self._stop_event is set
    key_states,                     \* self._key_states: key -> time of last press
    lock,                           \* holder of self._lock: "free", "input", "main"
    last_update,                    \* run's local last_update
    active_keys,                    \* the set update_targets last resolved from
    pc,                             \* position of the control loop (main thread)
    in_pc,                          \* position of the input thread
    ch,                             \* the input thread's local ch
    term,                           \* terminal mode: "cooked" or "raw"
    nread,                          \* characters read from stdin so far
    sent,                           \* last pair given to the motor sink, <<>> if none
    iter_view,                      \* the registry as get_active_keys began to iterate it
    ticked,                         \* history: the last loop iteration dispatched
    held_ticks,                     \* history: control ticks since rest under active_keys
    prev_sign,                      \* history: sign of linear_speed as the last control tick's smoothing began
    ramp_from, ramp_ticks,          \* history (SpecDrive): velocity at shutdown, ramp steps
    finals,                         \* history: final stop commands of line 274
    exc,                            \* the exception that ended main's normal flow, or "none"
    in_exc,                         \* an exception was raised inside the input thread's try block
    input_char,                     \* basic_drive.py: self._input_char, "" for None
    h_ch,                           \* basic_drive.py: handle_input's local ch
    keys_read,                      \* history, basic_drive.py: the characters read
    keys_handled,                   \* history, basic_drive.py: those handle_input dispatched on
    moving_forward, moving_backward, \* basic_drive.py: the movement mode flags
    rover_connected,                \* tars_drive_ai.py: self.rover_connected
    movement_thread,                \* tars_drive_ai.py: self.movement_thread, 0 for None
    workers,                        \* tars_drive_ai.py: the movement_worker threads
    requests                        \* history, tars_drive_ai.py: calls of execute_movement

velvars == <<linear_speed, angular_speed, target_linear, target_angular>>

inputvars == <<in_pc, ch, term, nread>>

rampvars == <<ramp_from, ramp_ticks, finals>>

loopvars == <<last_update, active_keys, ticked, held_ticks, prev_sign>>

faultvars == <<exc, in_exc>>

basicvars == <<input_char, h_ch, moving_forward, moving_backward, keys_read,
               keys_handled>>

tarsvars == <<rover_connected, movement_thread, workers, requests>>

extvars == <<faultvars, basicvars, tarsvars>>

vars == <<velvars, running, stop_event, key_states, lock, pc, inputvars, sent,
          iter_view, loopvars, rampvars, extvars>>

velocity == Velocity(linear_speed, angular_speed, target_linear, target_angular)

\* assignment of a velocity record to the four fields
SetVelocity(v) ==
    /\ linear_speed' = v.linear_speed
    /\ angular_speed' = v.angular_speed
    /\ target_linear' = v.target_linear
    /\ target_angular' = v.target_angular

AtRest(v) == v.linear_speed = FZero /\ v.angular_speed = FZero

(***************************************************************************)
(* BOUNDS                                                                  *)
(***************************************************************************)
\* characters the input thread reads before stdin stays silent
MaxInput == 1

\* the history counters held_ticks and ramp_ticks stop counting here
MaxCount == 27

EmptyRegistry == [key \in {} |-> Now]

\* the calls of execute_movement in a run of tars_drive_ai.py
MaxRequests == 2

\* a call of execute_movement starts at most one worker
Workers == 1..MaxRequests

\* a movement_worker thread: its pattern, the commands of the pattern it
\* has given, its position, and whether the pattern raised
NoWorker == [pattern |-> "", given |-> 0, at |-> "none", raised |-> FALSE]

NoRun == 0 - 1

(***************************************************************************)
(* HISTORY.  For the claims about runs "from rest with only these keys     *)
(* active", held_ticks counts the control ticks taken since the velocity   *)
(* was last (0, 0) while every resolution since then found the same        *)
(* active-key set (the present active_keys); it is NoRun when the set      *)
(* changed on the way.                                                     *)
(***************************************************************************)
HeldAfter(v, keys, tick) ==
    LET n == IF tick THEN 1 ELSE 0
    IN  IF AtRest(v) THEN n
        ELSE IF held_ticks # NoRun /\ keys = active_keys
        THEN IF held_ticks + n > MaxCount THEN MaxCount ELSE held_ticks + n
        ELSE NoRun

(***************************************************************************)
(* INITIAL STATE: SimpleRoverController() constructed, run() not entered.  *)
(***************************************************************************)
Constructed ==
    /\ linear_speed = FZero /\ angular_speed = FZero
    /\ target_linear = FZero /\ target_angular = FZero
    /\ running = TRUE
    /\ stop_event = FALSE
    /\ key_states = EmptyRegistry
    /\ lock = "free"
    /\ last_update = Now
    /\ active_keys = {}
    /\ in_pc = "init"
    /\ ch = ""
    /\ term = "cooked"
    /\ nread = 0
    /\ sent = <<>>
    /\ iter_view = EmptyRegistry
    /\ ticked = FALSE
    /\ held_ticks = 0
    /\ prev_sign = 0
    /\ ramp_from = <<>> /\ ramp_ticks = 0
    /\ finals = 0
    /\ exc = "none" /\ in_exc = FALSE
    /\ input_char = "" /\ h_ch = "" /\ keys_read = <<>> /\ keys_handled = <<>>
    /\ moving_forward = FALSE /\ moving_backward = FALSE
    /\ rover_connected = FALSE /\ movement_thread = 0
    /\ workers = [w \in Workers |-> NoWorker] /\ requests = 0

Init == Constructed /\ pc = "start"

(***************************************************************************)
(* ONE ITERATION OF THE MAIN LOOP, lines 239-257, as the control thread    *)
(* runs it when the input thread does not interleave.                      *)
(***************************************************************************)
\* line 245
TickDue(current_time, last) == current_time - last >= TICK_INTERVAL

\* lines 241-255 from the registry reg and velocity v, with last_update = last
LoopBody(reg, v, last) ==
    LET gak   == get_active_keys(reg, Now)
        v1    == update_targets(gak.active, v)
        tick  == TickDue(Now, last)
        v2    == IF tick THEN smooth_speed_update(v1) ELSE v1
        \* print_status reads the active keys again (line 188)
        gak2  == IF tick THEN get_active_keys(gak.reg, Now) ELSE gak
    IN  [active |-> gak.active, reg |-> gak2.reg, v |-> v2, tick |-> tick,
         before |-> IF tick THEN v1.linear_speed[1] ELSE prev_sign,
         sent |-> IF tick THEN update_robot(v2) ELSE sent,
         last |-> IF tick THEN Now ELSE last]

(***************************************************************************)
(* SHUTDOWN, the finally block of run (lines 261-278); both specifications *)
(* use these actions.                                                      *)
(***************************************************************************)
LoopPcs == {"loop", "acquire", "reading", "tick", "status", "status_reading", "sleep"}

\* line 239 with self.running false: the loop is left
LeaveLoop ==
    /\ pc = "loop" /\ ~running
    /\ pc' = "finally"
    /\ UNCHANGED <<velvars, running, stop_event, key_states, lock, inputvars,
                   sent, iter_view, loopvars, rampvars>>
    /\ UNCHANGED extvars

\* KeyboardInterrupt raised inside the try block (lines 236-260); a lock
\* held by the "with" statement is released on the way out
Interrupt ==
    /\ pc \in LoopPcs
    /\ pc' = "finally"
    /\ lock' = IF lock = "main" THEN "free" ELSE lock
    /\ iter_view' = EmptyRegistry
    /\ UNCHANGED <<velvars, running, stop_event, key_states, inputvars, sent,
                   loopvars, rampvars>>
    /\ UNCHANGED extvars

\* line 263; from records the velocity the ramp starts from, or is <<>>
Shutdown(from) ==
    /\ pc = "finally"
    /\ stop_event' = TRUE
    /\ pc' = "ramp"
    /\ ramp_from' = from
    /\ ramp_ticks' = 0
    /\ held_ticks' = NoRun
    /\ ticked' = FALSE
    /\ UNCHANGED <<velvars, running, key_states, lock, inputvars, sent,
                   iter_view, last_update, active_keys, prev_sign, finals>>
    /\ UNCHANGED extvars

\* lines 267-272: one step of the smooth stop
RampStep ==
    /\ pc = "ramp" /\ RampContinues(velocity)
    /\ \E v \in {smooth_speed_update(ResetTargets(velocity))} :
           /\ SetVelocity(v)
           /\ sent' = update_robot(v)
    /\ ramp_ticks' = IF ramp_from = <<>> THEN ramp_ticks
                     ELSE IF ramp_ticks < MaxCount THEN ramp_ticks + 1
                     ELSE MaxCount
    /\ UNCHANGED <<running, stop_event, key_states, lock, pc, inputvars,
                   iter_view, loopvars, ramp_from, finals>>
    /\ UNCHANGED extvars

Finally == Shutdown(<<>>)

\* line 267 false: the ramp is over
RampExit ==
    /\ pc = "ramp" /\ ~RampContinues(velocity)
    /\ pc' = "final"
    /\ UNCHANGED <<velvars, running, stop_event, key_states, lock, inputvars,
                   sent, iter_view, loopvars, rampvars>>
    /\ UNCHANGED extvars

\* mutant of FinalStop: the final stop command is not sent
FinalStopSkipped ==
    /\ pc = "final"
    /\ pc' = "join"
    /\ UNCHANGED <<velvars, running, stop_event, key_states, lock, inputvars,
                   sent, iter_view, loopvars, rampvars>>
    /\ UNCHANGED extvars

\* line 274: base_velocity_ctrl(0, 0)
FinalStop ==
    /\ pc = "final"
    /\ sent' = <<FZero, FZero>>
    /\ finals' = finals + 1
    /\ pc' = "join"
    /\ UNCHANGED <<velvars, running, stop_event, key_states, lock, inputvars,
                   iter_view, loopvars, ramp_from, ramp_ticks>>
    /\ UNCHANGED extvars

(***************************************************************************)
(* SpecDrive: the control thread against an environment that plays the     *)
(* input thread.  Before each loop iteration the environment chooses the   *)
(* movement keys whose presses are in the registry (recorded at the        *)
(* present time) and whether a tick interval has passed in the sleep of    *)
(* line 257; it ends the loop by a quit key or by an interrupt.            *)
(***************************************************************************)
\* lines 232-237: the thread is started, last_update is read
DriveStart ==
    /\ pc = "start"
    /\ pc' = "loop"
    /\ last_update' = Now
    /\ UNCHANGED <<velvars, running, stop_event, key_states, lock, inputvars,
                   sent, iter_view, active_keys, ticked, held_ticks, prev_sign,
                   rampvars>>
    /\ UNCHANGED extvars

DriveIteration ==
    /\ pc = "loop" /\ running
    /\ \E keys \in SUBSET MoveKeys, d \in {0, TICK_INTERVAL} :
          \E r \in {LoopBody([key \in keys |-> Now], velocity,
                             Aged(last_update, d))} :
              /\ SetVelocity(r.v)
              /\ key_states' = r.reg
              /\ active_keys' = r.active
              /\ sent' = r.sent
              /\ last_update' = r.last
              /\ ticked' = r.tick
              /\ prev_sign' = r.before
              /\ held_ticks' = HeldAfter(velocity, r.active, r.tick)
    /\ UNCHANGED <<running, stop_event, lock, pc, inputvars, iter_view, rampvars>>
    /\ UNCHANGED extvars

\* lines 58-59 seen from the control thread
DriveQuit ==
    /\ pc = "loop" /\ running
    /\ running' = FALSE
    /\ UNCHANGED <<velvars, stop_event, key_states, lock, pc, inputvars, sent,
                   iter_view, loopvars, rampvars>>
    /\ UNCHANGED extvars

DriveInterrupt == pc = "loop" /\ running /\ Interrupt

DriveFinally == Shutdown(<<linear_speed, angular_speed>>)

\* lines 276-278 with the input thread ended (lines 52, 68-69)
DriveJoin ==
    /\ pc = "join"
    /\ pc' = "done"
    /\ in_pc' = "done"
    /\ term' = "cooked"
    /\ UNCHANGED <<velvars, running, stop_event, key_states, lock, ch, nread,
                   sent, iter_view, loopvars, rampvars>>
    /\ UNCHANGED extvars

NextDrive ==
    \/ DriveStart
    \/ DriveIteration
    \/ DriveQuit
    \/ DriveInterrupt
    \/ LeaveLoop
    \/ DriveFinally
    \/ RampStep
    \/ RampExit
    \/ FinalStop
    \/ DriveJoin

SpecDrive == Init /\ [][NextDrive]_vars

(***************************************************************************)
(* Spec: the two threads of run(), interleaved step by step.               *)
(***************************************************************************)
\* what sys.stdin.read(1) returns: the movement keys, the quit keys ("esc"
\* stands for '\x1b'), another character, and '' at end of input
Chars == {"w", "a", "s", "d", " ", "q", "esc", "x", ""}

QuitKeys == {"q", "esc"}

\* line 64: ch in 'wasd ' is Python's substring test, which '' passes too
InWasd(c) == c \in {"w", "a", "s", "d", " ", ""}

\* line 65: self._key_states[ch] = time.time()
record(reg, key, t) ==
    [k \in (DOMAIN reg) \cup {key} |-> IF k = key THEN t ELSE reg[k]]

\* lines 232-237: the input thread is started, last_update is read
Start ==
    /\ pc = "start"
    /\ pc' = "loop"
    /\ in_pc' = "setraw"
    /\ last_update' = Now
    /\ UNCHANGED <<velvars, running, stop_event, key_states, lock, ch, term,
                   nread, sent, iter_view, active_keys, ticked, held_ticks,
                   prev_sign, rampvars>>
    /\ UNCHANGED extvars

---------------------------------------------------------------------------
\* The input thread, _read_input

\* lines 48-51
InputSetRaw ==
    /\ in_pc = "setraw"
    /\ term' = "raw"
    /\ in_pc' = "poll"
    /\ UNCHANGED <<velvars, running, stop_event, key_states, lock, pc, ch,
                   nread, sent, iter_view, loopvars, rampvars>>
    /\ UNCHANGED extvars

\* line 52 with the stop event set
InputStopped ==
    /\ in_pc = "poll" /\ stop_event
    /\ in_pc' = "restore"
    /\ UNCHANGED <<velvars, running, stop_event, key_states, lock, pc, ch,
                   term, nread, sent, iter_view, loopvars, rampvars>>
    /\ UNCHANGED extvars

\* mutant of InputRead: a quit key ends the input loop but running stays set
InputReadQuitKeepsRunning ==
    /\ in_pc = "poll" /\ ~stop_event /\ nread < MaxInput
    /\ nread' = nread + 1
    /\ \E c \in Chars :
          /\ ch' = c
          /\ in_pc' = IF c \in QuitKeys THEN "restore" ELSE "lock"
    /\ UNCHANGED <<velvars, running, stop_event, key_states, lock, pc, term,
                   sent, iter_view, loopvars, rampvars>>
    /\ UNCHANGED extvars

\* lines 52-60: a character is there and is read; a quit key ends the loop
InputRead ==
    /\ in_pc = "poll" /\ ~stop_event /\ nread < MaxInput
    /\ nread' = nread + 1
    /\ \E c \in Chars :
          /\ ch' = c
          /\ IF c \in QuitKeys
             THEN running' = FALSE /\ in_pc' = "restore"
             ELSE running' = running /\ in_pc' = "lock"
    /\ UNCHANGED <<velvars, stop_event, key_states, lock, pc, term, sent,
                   iter_view, loopvars, rampvars>>
    /\ UNCHANGED extvars

\* mutant of InputAcquire: the write goes ahead without waiting for the lock
InputAcquireNoWait ==
    /\ in_pc = "lock"
    /\ lock' = "input"
    /\ in_pc' = "write"
    /\ UNCHANGED <<velvars, running, stop_event, key_states, pc, ch, term,
                   nread, sent, iter_view, loopvars, rampvars>>
    /\ UNCHANGED extvars

\* line 63: with self._lock
InputAcquire ==
    /\ in_pc = "lock" /\ lock = "free"
    /\ lock' = "input"
    /\ in_pc' = "write"
    /\ UNCHANGED <<velvars, running, stop_event, key_states, pc, ch, term,
                   nread, sent, iter_view, loopvars, rampvars>>
    /\ UNCHANGED extvars

\* mutant of InputWrite: the input thread sets the forward target itself
InputWriteSetsTarget ==
    /\ in_pc = "write"
    /\ key_states' = IF InWasd(ch) THEN record(key_states, ch, Now) ELSE key_states
    /\ target_linear' = IF ch = "w" THEN MAX_SPEED ELSE target_linear
    /\ lock' = "free"
    /\ in_pc' = "poll"
    /\ UNCHANGED <<linear_speed, angular_speed, target_angular, running,
                   stop_event, pc, ch, term, nread, sent, iter_view, loopvars,
                   rampvars>>
    /\ UNCHANGED extvars

\* lines 64-67: the write, the release of the lock, the sleep
InputWrite ==
    /\ in_pc = "write"
    /\ key_states' = IF InWasd(ch) THEN record(key_states, ch, Now) ELSE key_states
    /\ lock' = "free"
    /\ in_pc' = "poll"
    /\ UNCHANGED <<velvars, running, stop_event, pc, ch, term, nread, sent,
                   iter_view, loopvars, rampvars>>
    /\ UNCHANGED extvars

\* mutant of InputRestore: the thread ends without tcsetattr
InputRestoreSkip ==
    /\ in_pc = "restore"
    /\ in_pc' = "done"
    /\ UNCHANGED <<velvars, running, stop_event, key_states, lock, pc, ch,
                   term, nread, sent, iter_view, loopvars, rampvars>>
    /\ UNCHANGED extvars

\* lines 68-69
InputRestore ==
    /\ in_pc = "restore"
    /\ term' = "cooked"
    /\ in_pc' = "done"
    /\ UNCHANGED <<velvars, running, stop_event, key_states, lock, pc, ch,
                   nread, sent, iter_view, loopvars, rampvars>>
    /\ UNCHANGED extvars

---------------------------------------------------------------------------
\* The control loop, run

\* line 239 with self.running true
LoopEnter ==
    /\ pc = "loop" /\ running
    /\ pc' = "acquire"
    /\ UNCHANGED <<velvars, running, stop_event, key_states, lock, inputvars,
                   sent, iter_view, loopvars, rampvars>>
    /\ UNCHANGED extvars

\* lines 73-76: update_targets calls get_active_keys, which takes the lock
Acquire ==
    /\ pc = "acquire" /\ lock = "free"
    /\ lock' = "main"
    /\ iter_view' = key_states
    /\ pc' = "reading"
    /\ UNCHANGED <<velvars, running, stop_event, key_states, inputvars, sent,
                   loopvars, rampvars>>
    /\ UNCHANGED extvars

\* lines 77-89, 95-137 and 244-245: the registry is read and pruned, the
\* lock released, the targets resolved, the tick interval tested
Resolve ==
    /\ pc = "reading"
    /\ \E gak \in {get_active_keys(key_states, Now)} :
          /\ key_states' = gak.reg
          /\ active_keys' = gak.active
          /\ SetVelocity(update_targets(gak.active, velocity))
          /\ held_ticks' = HeldAfter(velocity, gak.active, FALSE)
    /\ lock' = "free"
    /\ iter_view' = EmptyRegistry
    /\ ticked' = FALSE
    /\ pc' = IF TickDue(Now, last_update) THEN "tick" ELSE "sleep"
    /\ UNCHANGED <<running, stop_event, inputvars, sent, last_update,
                   prev_sign, rampvars>>
    /\ UNCHANGED extvars

\* mutant of ControlTick: the command is sent before the smoothing
ControlTickDispatchFirst ==
    /\ pc = "tick"
    /\ sent' = update_robot(velocity)
    /\ SetVelocity(smooth_speed_update(velocity))
    /\ ticked' = TRUE
    /\ prev_sign' = linear_speed[1]
    /\ held_ticks' = IF held_ticks = NoRun THEN NoRun
                     ELSE IF held_ticks < MaxCount THEN held_ticks + 1
                     ELSE MaxCount
    /\ pc' = "status"
    /\ UNCHANGED <<running, stop_event, key_states, lock, inputvars, iter_view,
                   last_update, active_keys, rampvars>>
    /\ UNCHANGED extvars

\* lines 247-250: smooth_speed_update and update_robot
ControlTick ==
    /\ pc = "tick"
    /\ \E v \in {smooth_speed_update(velocity)} :
          /\ SetVelocity(v)
          /\ sent' = update_robot(v)
    /\ ticked' = TRUE
    /\ prev_sign' = linear_speed[1]
    /\ held_ticks' = IF held_ticks = NoRun THEN NoRun
                     ELSE IF held_ticks < MaxCount THEN held_ticks + 1
                     ELSE MaxCount
    /\ pc' = "status"
    /\ UNCHANGED <<running, stop_event, key_states, lock, inputvars, iter_view,
                   last_update, active_keys, rampvars>>
    /\ UNCHANGED extvars

\* line 253: print_status calls get_active_keys, which takes the lock
StatusAcquire ==
    /\ pc = "status" /\ lock = "free"
    /\ lock' = "main"
    /\ iter_view' = key_states
    /\ pc' = "status_reading"
    /\ UNCHANGED <<velvars, running, stop_event, key_states, inputvars, sent,
                   loopvars, rampvars>>
    /\ UNCHANGED extvars

\* lines 77-89 and 255: the registry is read and pruned, the lock released,
\* last_update set
StatusRead ==
    /\ pc = "status_reading"
    /\ key_states' = get_active_keys(key_states, Now).reg
    /\ lock' = "free"
    /\ iter_view' = EmptyRegistry
    /\ last_update' = Now
    /\ pc' = "sleep"
    /\ UNCHANGED <<velvars, running, stop_event, inputvars, sent, active_keys,
                   ticked, held_ticks, prev_sign, rampvars>>
    /\ UNCHANGED extvars

\* one quantum of time passes during the sleep of line 257
Elapse ==
    /\ pc = "sleep"
    /\ key_states' = [key \in DOMAIN key_states |-> Aged(key_states[key], 1)]
    /\ last_update' = Aged(last_update, 1)
    /\ UNCHANGED <<velvars, running, stop_event, lock, pc, inputvars, sent,
                   iter_view, active_keys, ticked, held_ticks, prev_sign,
                   rampvars>>
    /\ UNCHANGED extvars

\* line 257: the sleep ends
Wake ==
    /\ pc = "sleep"
    /\ pc' = "loop"
    /\ UNCHANGED <<velvars, running, stop_event, key_states, lock, inputvars,
                   sent, iter_view, loopvars, rampvars>>
    /\ UNCHANGED extvars

\* mutant of Join: run() ends without waiting for the input thread
JoinNoWait ==
    /\ pc = "join" /\ exc = "none"
    /\ pc' = "done"
    /\ UNCHANGED <<velvars, running, stop_event, key_states, lock, inputvars,
                   sent, iter_view, loopvars, rampvars>>
    /\ UNCHANGED extvars

\* lines 276-278: the input thread, which tests the stop event every 15 ms,
\* has ended within the join timeout of one second
Join ==
    /\ pc = "join" /\ in_pc = "done" /\ exc = "none"
    /\ pc' = "done"
    /\ UNCHANGED <<velvars, running, stop_event, key_states, lock, inputvars,
                   sent, iter_view, loopvars, rampvars>>
    /\ UNCHANGED extvars

InputStep ==
    \/ InputSetRaw
    \/ InputStopped
    \/ InputRead
    \/ InputAcquire
    \/ InputWrite
    \/ InputRestore

MainStep ==
    \/ Start
    \/ LoopEnter
    \/ Acquire
    \/ Resolve
    \/ ControlTick
    \/ StatusAcquire
    \/ StatusRead
    \/ Elapse
    \/ Wake
    \/ Interrupt
    \/ LeaveLoop
    \/ Finally
    \/ RampStep
    \/ RampExit
    \/ FinalStop
    \/ Join

Next == InputStep \/ MainStep

Spec == Init /\ [][Next]_vars

\* Spec with the scheduling the code relies on: each thread that can take a
\* step is given one in the end (both loops sleep between their rounds,
\* lines 67 and 257, and neither holds the lock while it sleeps).
FairSpec == Spec /\ WF_vars(MainStep) /\ WF_vars(InputStep)

(***************************************************************************)
(* SpecMore: Spec with one more character on the input, for the cases in   *)
(* which a key arrives while the rover moves under an earlier one.         *)
(***************************************************************************)
\* lines 52-60 for the character after the MaxInput-th
InputReadMore ==
    /\ in_pc = "poll" /\ ~stop_event /\ nread = MaxInput
    /\ nread' = nread + 1
    /\ \E c \in Chars :
          /\ ch' = c
          /\ IF c \in QuitKeys
             THEN running' = FALSE /\ in_pc' = "restore"
             ELSE running' = running /\ in_pc' = "lock"
    /\ UNCHANGED <<velvars, stop_event, key_states, lock, pc, term, sent,
                   iter_view, loopvars, rampvars>>
    /\ UNCHANGED extvars

NextMore == Next \/ InputReadMore

SpecMore == Init /\ [][NextMore]_vars

(***************************************************************************)
(* SpecFault: the two threads as in Spec, from the entry of main(), with   *)
(* the failures of the collaborators: BaseController(...) raises at        *)
(* startup, base_velocity_ctrl raises on a command, select or read raises  *)
(* in the input thread.  An exception other than KeyboardInterrupt is not  *)
(* caught in run(); it passes through the finally block (lines 261-278)    *)
(* to main(), which prints it and calls sys.exit(1) (lines 284-286).  The  *)
(* input thread is a daemon (line 233): it is ended where it stands when   *)
(* the process exits.                                                      *)
(***************************************************************************)
\* main() entered, SimpleRoverController() not yet constructed
InitMain == Constructed /\ pc = "main"

\* line 282: the constructor returns
Construct ==
    /\ pc = "main"
    /\ pc' = "start"
    /\ UNCHANGED <<velvars, running, stop_event, key_states, lock, inputvars,
                   sent, iter_view, loopvars, rampvars, extvars>>

\* mutant of ConstructFails: the input thread is started before the failure
ConstructFailsAfterStart ==
    /\ pc = "main"
    /\ exc' = "startup"
    /\ pc' = "exit"
    /\ in_pc' = "setraw"
    /\ UNCHANGED <<velvars, running, stop_event, key_states, lock, ch, term,
                   nread, sent, iter_view, loopvars, rampvars, in_exc, basicvars,
                   tarsvars>>

\* lines 18 and 282-286: BaseController(...) raises, main() catches
ConstructFails ==
    /\ pc = "main"
    /\ exc' = "startup"
    /\ pc' = "exit"
    /\ UNCHANGED <<velvars, running, stop_event, key_states, lock, inputvars,
                   sent, iter_view, loopvars, rampvars, in_exc, basicvars,
                   tarsvars>>

\* lines 247-250: smooth_speed_update runs, then base_velocity_ctrl raises;
\* the exception leaves the loop for the finally block
TickSinkFails ==
    /\ pc = "tick"
    /\ SetVelocity(smooth_speed_update(velocity))
    /\ prev_sign' = linear_speed[1]
    /\ ticked' = FALSE
    /\ held_ticks' = NoRun
    /\ exc' = "tick"
    /\ pc' = "finally"
    /\ UNCHANGED <<running, stop_event, key_states, lock, inputvars, sent,
                   iter_view, last_update, active_keys, rampvars, in_exc,
                   basicvars,
                   tarsvars>>

\* lines 268-271: base_velocity_ctrl raises in a ramp step; the exception
\* leaves the finally block, lines 272-278 are skipped
RampSinkFails ==
    /\ pc = "ramp" /\ RampContinues(velocity)
    /\ SetVelocity(smooth_speed_update(ResetTargets(velocity)))
    /\ exc' = "ramp"
    /\ pc' = "exit"
    /\ UNCHANGED <<running, stop_event, key_states, lock, inputvars, sent,
                   iter_view, loopvars, rampvars, in_exc, basicvars,
                   tarsvars>>

\* line 274: base_velocity_ctrl(0, 0) is called and raises; lines 276-278
\* are skipped
FinalStopFails ==
    /\ pc = "final"
    /\ finals' = finals + 1
    /\ exc' = "final"
    /\ pc' = "exit"
    /\ UNCHANGED <<velvars, running, stop_event, key_states, lock, inputvars,
                   sent, iter_view, loopvars, ramp_from, ramp_ticks, in_exc,
                   basicvars,
                   tarsvars>>

\* lines 276-278 and 284-286: the finally block is through and the
\* exception of the control tick goes on to main()
JoinRaises ==
    /\ pc = "join" /\ in_pc = "done" /\ exc # "none"
    /\ pc' = "exit"
    /\ UNCHANGED <<velvars, running, stop_event, key_states, lock, inputvars,
                   sent, iter_view, loopvars, rampvars, extvars>>

\* lines 51-55: tty.setraw, select or read raises; the finally clause of
\* line 68 is entered
InputFails ==
    /\ in_pc \in {"setraw", "poll"}
    /\ in_exc' = TRUE
    /\ in_pc' = "restore"
    /\ UNCHANGED <<velvars, running, stop_event, key_states, lock, pc, ch,
                   term, nread, sent, iter_view, loopvars, rampvars, exc,
                   basicvars,
                   tarsvars>>

\* line 286: sys.exit(1); a daemon thread still running ends where it is
ProcessExit ==
    /\ pc = "exit"
    /\ pc' = "dead"
    /\ in_pc' = IF in_pc \in {"init", "done"} THEN in_pc ELSE "killed"
    /\ UNCHANGED <<velvars, running, stop_event, key_states, lock, ch, term,
                   nread, sent, iter_view, loopvars, rampvars, extvars>>

\* lines 284-286: the exit status of the process
ExitStatus == IF exc = "none" THEN 0 ELSE 1

NextFault ==
    \/ Next
    \/ Construct
    \/ ConstructFails
    \/ TickSinkFails
    \/ RampSinkFails
    \/ FinalStopFails
    \/ JoinRaises
    \/ InputFails
    \/ ProcessExit

SpecFault == InitMain /\ [][NextFault]_vars

(***************************************************************************)
(* SpecBasic: the variant src/Jetson_ai_drive/basic_drive.py, a controller *)
(* without registry, targets and smoothing.  Its fields linear_speed,      *)
(* angular_speed, running and _stop_event, its local last_update, the      *)
(* input thread's local ch and the terminal are held in the variables of   *)
(* the same name; positions of this variant begin with "b_".  The input    *)
(* thread hands each character to the control loop through the one-slot    *)
(* _input_char, without a lock.                                            *)
(***************************************************************************)
BASIC_MAX_SPEED == <<1, 161061273, 322122544>>     \* 0.3

BASIC_MAX_STEER == <<1, 107374182, 214748368>>     \* 0.2

\* the literal 0.5 of lines 68-107
BasicTurnSpeed == <<1, 2^28, 0>>

\* the characters read in a run of this variant
BasicMaxInput == 2

BasicChars ==
    {"w", "s", "a", "d", " ", "q", "esc", "e", "r", "z", "x", "k", ""}

BasicState(l, a, fwd, bwd, run) ==
    [linear_speed |-> l, angular_speed |-> a, moving_forward |-> fwd,
     moving_backward |-> bwd, running |-> run]

\* handle_input lines 54-110 on the character c
BasicHandleKey(c, st) ==
    LET turn == IF st.moving_backward THEN FNeg(BasicTurnSpeed) ELSE BasicTurnSpeed
        fwd  == IF st.moving_backward THEN st.moving_forward ELSE TRUE
    IN  CASE c = "w" -> BasicState(BASIC_MAX_SPEED, FZero, TRUE, FALSE, st.running)
          [] c = "s" -> BasicState(FNeg(BASIC_MAX_SPEED), FZero, FALSE, TRUE, st.running)
          [] c = "a" -> BasicState(turn, BASIC_MAX_STEER, fwd, st.moving_backward, st.running)
          [] c = "d" -> BasicState(turn, FNeg(BASIC_MAX_STEER), fwd, st.moving_backward, st.running)
          [] c = " " -> BasicState(FZero, FZero, FALSE, FALSE, st.running)
          [] c \in {"q", "esc"} -> [st EXCEPT !.running = FALSE]
          [] c = "e" -> BasicState(BasicTurnSpeed, BASIC_MAX_STEER, TRUE, FALSE, st.running)
          [] c = "r" -> BasicState(BasicTurnSpeed, FNeg(BASIC_MAX_STEER), TRUE, FALSE, st.running)
          [] c = "z" -> BasicState(FNeg(BasicTurnSpeed), FNeg(BASIC_MAX_STEER), FALSE, TRUE, st.running)
          [] c = "x" -> BasicState(FNeg(BasicTurnSpeed), BASIC_MAX_STEER, FALSE, TRUE, st.running)
          [] OTHER -> st

\* SimpleRoverController() of basic_drive.py constructed, run() not entered
BasicInit == Constructed /\ pc = "b_start"

BasicLoopPcs == {"b_loop", "b_take", "b_handle", "b_tick", "b_sleep"}

\* what the control loop and the input thread of this variant never touch
basicrest == <<target_linear, target_angular, key_states, lock, iter_view,
               active_keys, ticked, held_ticks, prev_sign, rampvars, faultvars,
               tarsvars>>

\* lines 156-161
BasicStart ==
    /\ pc = "b_start"
    /\ pc' = "b_loop"
    /\ in_pc' = "b_setraw"
    /\ last_update' = Now
    /\ UNCHANGED <<linear_speed, angular_speed, running, stop_event, ch, term,
                   nread, sent, basicvars, basicrest>>

\* lines 37-40
BasicSetRaw ==
    /\ in_pc = "b_setraw"
    /\ term' = "raw"
    /\ in_pc' = "b_read"
    /\ UNCHANGED <<linear_speed, angular_speed, running, stop_event, pc, ch,
                   nread, sent, last_update, basicvars, basicrest>>

\* line 41 with the stop event set, lines 45-46
BasicRestore ==
    /\ in_pc = "b_read" /\ stop_event
    /\ term' = "cooked"
    /\ in_pc' = "done"
    /\ UNCHANGED <<linear_speed, angular_speed, running, stop_event, pc, ch,
                   nread, sent, last_update, basicvars, basicrest>>

\* lines 41-42: the blocking read returns a character
BasicRead ==
    /\ in_pc = "b_read" /\ ~stop_event /\ nread < BasicMaxInput
    /\ nread' = nread + 1
    /\ \E c \in BasicChars :
          /\ ch' = c
          /\ keys_read' = IF c = "" THEN keys_read ELSE Append(keys_read, c)
    /\ in_pc' = "b_store"
    /\ UNCHANGED <<linear_speed, angular_speed, running, stop_event, pc, term,
                   sent, last_update, input_char, h_ch, moving_forward,
                   moving_backward, keys_handled, basicrest>>

\* lines 43-44
BasicStore ==
    /\ in_pc = "b_store"
    /\ input_char' = ch
    /\ in_pc' = "b_read"
    /\ UNCHANGED <<linear_speed, angular_speed, running, stop_event, pc, ch,
                   term, nread, sent, last_update, h_ch, moving_forward,
                   moving_backward, keys_read, keys_handled, basicrest>>

\* line 163 with self.running true
BasicLoopEnter ==
    /\ pc = "b_loop" /\ running
    /\ pc' = "b_take"
    /\ UNCHANGED <<linear_speed, angular_speed, running, stop_event, inputvars,
                   sent, last_update, basicvars, basicrest>>

\* lines 50-51 and, with nothing in the slot, 168-169
BasicTake ==
    /\ pc = "b_take"
    /\ IF input_char # ""
       THEN h_ch' = input_char /\ pc' = "b_handle"
       ELSE h_ch' = h_ch
            /\ pc' = IF TickDue(Now, last_update) THEN "b_tick" ELSE "b_sleep"
    /\ UNCHANGED <<linear_speed, angular_speed, running, stop_event, inputvars,
                   sent, last_update, input_char, moving_forward,
                   moving_backward, keys_read, keys_handled, basicrest>>

\* lines 52-110 and 168-169: the slot is cleared, the character handled
BasicHandle ==
    /\ pc = "b_handle"
    /\ input_char' = ""
    /\ keys_handled' = Append(keys_handled, h_ch)
    /\ \E st \in {BasicHandleKey(h_ch,
                      BasicState(linear_speed, angular_speed, moving_forward,
                                 moving_backward, running))} :
          /\ linear_speed' = st.linear_speed
          /\ angular_speed' = st.angular_speed
          /\ moving_forward' = st.moving_forward
          /\ moving_backward' = st.moving_backward
          /\ running' = st.running
    /\ pc' = IF TickDue(Now, last_update) THEN "b_tick" ELSE "b_sleep"
    /\ UNCHANGED <<stop_event, inputvars, sent, last_update, h_ch, keys_read,
                   basicrest>>

\* lines 170-172: update_robot, print_status, last_update
BasicTick ==
    /\ pc = "b_tick"
    /\ sent' = <<linear_speed, angular_speed>>
    /\ last_update' = Now
    /\ pc' = "b_sleep"
    /\ UNCHANGED <<linear_speed, angular_speed, running, stop_event, inputvars,
                   basicvars, basicrest>>

\* one quantum of time passes during the sleep of line 174
BasicElapse ==
    /\ pc = "b_sleep"
    /\ last_update' = Aged(last_update, 1)
    /\ UNCHANGED <<linear_speed, angular_speed, running, stop_event, pc,
                   inputvars, sent, basicvars, basicrest>>

\* line 174: the sleep ends
BasicWake ==
    /\ pc = "b_sleep"
    /\ pc' = "b_loop"
    /\ UNCHANGED <<linear_speed, angular_speed, running, stop_event, inputvars,
                   sent, last_update, basicvars, basicrest>>

\* line 163 with self.running false, or KeyboardInterrupt (lines 176-177)
BasicLeave ==
    /\ \/ pc = "b_loop" /\ ~running
       \/ pc \in BasicLoopPcs
    /\ pc' = "b_finally"
    /\ UNCHANGED <<linear_speed, angular_speed, running, stop_event, inputvars,
                   sent, last_update, basicvars, basicrest>>

\* mutant of BasicFinally: the stop event is set, no stop command is sent
BasicFinallyNoStop ==
    /\ pc = "b_finally"
    /\ stop_event' = TRUE
    /\ pc' = "b_done"
    /\ UNCHANGED <<linear_speed, angular_speed, running, inputvars, sent,
                   last_update, basicvars, basicrest>>

\* lines 178-182
BasicFinally ==
    /\ pc = "b_finally"
    /\ stop_event' = TRUE
    /\ sent' = <<FZero, FZero>>
    /\ pc' = "b_done"
    /\ UNCHANGED <<linear_speed, angular_speed, running, inputvars,
                   last_update, basicvars, basicrest>>

NextBasic ==
    \/ BasicStart
    \/ BasicSetRaw
    \/ BasicRestore
    \/ BasicRead
    \/ BasicStore
    \/ BasicLoopEnter
    \/ BasicTake
    \/ BasicHandle
    \/ BasicTick
    \/ BasicElapse
    \/ BasicWake
    \/ BasicLeave
    \/ BasicFinally

SpecBasic == BasicInit /\ [][NextBasic]_vars

(***************************************************************************)
(* SpecTars: the movement patterns of the voice rover,                     *)
(* src/Jetson_ai_drive/tars_drive_ai.py.  The main thread calls            *)
(* execute_movement (from chat_with_tars, lines 288-303); each worker it   *)
(* starts gives the commands of its pattern to the motor sink, sleeping    *)
(* between them.  A call of base_velocity_ctrl may raise.  The workers are *)
(* daemon threads (line 201): they are ended where they stand when the     *)
(* process exits.  The variable sent holds the last command the sink took. *)
(***************************************************************************)
F010 == <<1, 53687091, 107374184>>                 \* 0.1

F015 == <<1, 80530636, 429496728>>                 \* 0.15

F020 == <<1, 107374182, 214748368>>                \* 0.2

F030 == <<1, 161061273, 322122544>>                \* 0.3

F040 == <<1, 214748364, 429496736>>                \* 0.4

\* the names execute_movement is called with (lines 291-303), and one more
PatternNames ==
    {"happy_wiggle", "excited_spin", "thinking_turn", "sad_backup",
     "angry_turn", "tired_rock", "curious_lean", "other"}

\* lines 141-187: the commands of a pattern, in order
PatternCommands(movement_pattern) ==
    CASE movement_pattern = "happy_wiggle" ->
             << <<F020, FZero>>, <<FNeg(F020), FZero>>, <<F020, FZero>> >>
      [] movement_pattern = "excited_spin" ->
             << <<FZero, FNeg(F030)>>, <<FZero, F030>>,
                <<FZero, FNeg(F030)>>, <<FZero, F030>> >>
      [] movement_pattern = "thinking_turn" ->
             << <<FZero, FNeg(F020)>>, <<FZero, F020>>, <<FZero, FNeg(F020)>> >>
      [] movement_pattern = "sad_backup" -> << <<FNeg(F015), FZero>> >>
      [] movement_pattern = "angry_turn" -> << <<FZero, FNeg(F040)>> >>
      [] movement_pattern = "tired_rock" ->
             << <<F010, FZero>>, <<FNeg(F010), FZero>> >>
      [] movement_pattern = "curious_lean" -> << <<F015, FZero>> >>
      [] OTHER -> << >>

\* Thread.is_alive()
IsAlive(w) == workers[w].at \in {"pattern", "handler"}

\* TARSRover() not yet constructed
TarsInit == Constructed /\ pc = "t_init"

\* what tars_drive_ai.py does not have
tarsrest == <<velvars, running, stop_event, key_states, lock, inputvars,
              iter_view, loopvars, rampvars, faultvars, basicvars>>

\* lines 34-40 and 57: the connection to the rover succeeds or fails
TarsConstruct ==
    /\ pc = "t_init"
    /\ \E connected \in BOOLEAN : rover_connected' = connected
    /\ pc' = "t_menu"
    /\ UNCHANGED <<sent, movement_thread, workers, requests, tarsrest>>

\* lines 133-137 and 197-202: execute_movement(movement_pattern)
ExecuteMovement ==
    /\ pc = "t_menu" /\ requests < MaxRequests
    /\ requests' = requests + 1
    /\ \E movement_pattern \in PatternNames :
          IF ~rover_connected
          THEN UNCHANGED <<movement_thread, workers>>
          ELSE IF movement_thread # 0 /\ IsAlive(movement_thread)
          THEN UNCHANGED <<movement_thread, workers>>
          ELSE /\ movement_thread' = requests + 1
               /\ workers' = [workers EXCEPT ![requests + 1] =
                                [pattern |-> movement_pattern, given |-> 0,
                                 at |-> "pattern", raised |-> FALSE]]
    /\ UNCHANGED <<sent, pc, rover_connected, tarsrest>>

\* lines 141-187: the next command of the pattern is given
WorkerCommand(w) ==
    /\ workers[w].at = "pattern"
    /\ workers[w].given < Len(PatternCommands(workers[w].pattern))
    /\ sent' = PatternCommands(workers[w].pattern)[workers[w].given + 1]
    /\ workers' = [workers EXCEPT ![w].given = @ + 1]
    /\ UNCHANGED <<pc, rover_connected, movement_thread, requests, tarsrest>>

\* lines 189-190: the pattern is over, the stop command is given
WorkerStop(w) ==
    /\ workers[w].at = "pattern"
    /\ workers[w].given = Len(PatternCommands(workers[w].pattern))
    /\ sent' = <<FZero, FZero>>
    /\ workers' = [workers EXCEPT ![w].at = "done"]
    /\ UNCHANGED <<pc, rover_connected, movement_thread, requests, tarsrest>>

\* lines 192-193: base_velocity_ctrl raises in the try block
WorkerRaises(w) ==
    /\ workers[w].at = "pattern"
    /\ workers' = [workers EXCEPT ![w].at = "handler", ![w].raised = TRUE]
    /\ UNCHANGED <<sent, pc, rover_connected, movement_thread, requests,
                   tarsrest>>

\* lines 194-195: the handler gives the stop command
WorkerHandler(w) ==
    /\ workers[w].at = "handler"
    /\ IF rover_connected THEN sent' = <<FZero, FZero>> ELSE sent' = sent
    /\ workers' = [workers EXCEPT ![w].at = "done"]
    /\ UNCHANGED <<pc, rover_connected, movement_thread, requests, tarsrest>>

\* line 195: base_velocity_ctrl raises in the handler, the thread ends
WorkerHandlerRaises(w) ==
    /\ workers[w].at = "handler" /\ rover_connected
    /\ workers' = [workers EXCEPT ![w].at = "failed"]
    /\ UNCHANGED <<sent, pc, rover_connected, movement_thread, requests,
                   tarsrest>>

\* lines 351-360: the loop of run is left, the rover is stopped
TarsFinally ==
    /\ pc = "t_menu"
    /\ IF rover_connected THEN sent' = <<FZero, FZero>> ELSE sent' = sent
    /\ pc' = "t_exit"
    /\ UNCHANGED <<rover_connected, movement_thread, workers, requests,
                   tarsrest>>

\* lines 399-402: main returns, the process ends with its daemon threads
TarsExit ==
    /\ pc = "t_exit"
    /\ pc' = "t_dead"
    /\ workers' = [w \in Workers |->
                     IF IsAlive(w) THEN [workers[w] EXCEPT !.at = "killed"]
                     ELSE workers[w]]
    /\ UNCHANGED <<sent, rover_connected, movement_thread, requests, tarsrest>>

\* a step of a worker that is alive
WorkerStep ==
    \E w \in Workers :
        \/ WorkerCommand(w)
        \/ WorkerStop(w)
        \/ WorkerRaises(w)
        \/ WorkerHandler(w)
        \/ WorkerHandlerRaises(w)

NextTars ==
    \/ TarsConstruct
    \/ ExecuteMovement
    \/ WorkerStep
    \/ TarsFinally
    \/ TarsExit

SpecTars == TarsInit /\ [][NextTars]_vars

(***************************************************************************)
(* CLAIMS                                                                  *)
(***************************************************************************)
\* ceil(MAX_SPEED / LINEAR_ACCEL) = ceil(0.5 / 0.02), on the literals in hundredths
AccelTicks == (50 + 2 - 1) \div 2

\* ceil(MAX_STEER / ANGULAR_ACCEL) = ceil(0.2 / 0.05), on the literals in hundredths
SteerTicks == (20 + 5 - 1) \div 5

InBounds(l, a) == FLe(FAbs(l), MAX_SPEED) /\ FLe(FAbs(a), MAX_STEER)

Zero2 == <<FZero, FZero>>

\* C1: in every reachable state, after key recordings, resolutions, control
\* ticks, emergency stops and shutdown-ramp steps in any order, the live
\* velocity satisfies |linear_speed| <= MAX_SPEED and |angular_speed| <=
\* MAX_STEER, and so does the last pair passed to the motor sink.
C1_VelocityBounded ==
    /\ InBounds(linear_speed, angular_speed)
    /\ sent # <<>> => InBounds(sent[1], sent[2])

\* the ramp runs after both limits were reached and dispatched
C1_Witness ==
    /\ pc = "ramp" /\ ramp_ticks >= 1
    /\ ramp_from = <<MAX_SPEED, FNeg(MAX_STEER)>>
    /\ sent # <<>> /\ sent[1] # FZero

\* C2: after a loop iteration that ran the control tick with the stop key
\* in the active-key set of its resolution, the pair dispatched in that
\* iteration is (0, 0) (and so is the live velocity), whatever the velocity
\* was before and whatever other keys are active.
C2_StopDispatchesZero ==
    (pc = "loop" /\ ticked /\ " " \in active_keys)
        => (sent = Zero2 /\ linear_speed = FZero /\ angular_speed = FZero)

\* stop together with forward and left, in a tick begun at nonzero velocity
\* (held_ticks = NoRun after an iteration: it did not begin at rest)
C2_Witness ==
    /\ pc = "loop" /\ ticked /\ held_ticks = NoRun
    /\ {" ", "w", "a"} \subseteq active_keys
    /\ sent = Zero2

\* C3 as stated: from rest with only the left key active, after exactly one
\* control tick linear = +MIN_TURN_SPEED and angular = -MAX_STEER.
C3_Original ==
    (pc = "loop" /\ active_keys = {"a"} /\ held_ticks = 1)
        => (linear_speed = MIN_TURN_SPEED /\ angular_speed = FNeg(MAX_STEER))

\* C3 amended: from rest with only the left key active, after exactly one
\* control tick linear = +MIN_TURN_SPEED (at once), the angular target is
\* -MAX_STEER and the angular speed is -ANGULAR_ACCEL; the angular speed
\* first equals -MAX_STEER after ceil(MAX_STEER / ANGULAR_ACCEL) ticks.
C3_TurnInPlace ==
    (pc = "loop" /\ active_keys = {"a"} /\ held_ticks >= 1)
        => /\ linear_speed = MIN_TURN_SPEED
           /\ target_angular = FNeg(MAX_STEER)
           /\ held_ticks = 1 => angular_speed = FNeg(ANGULAR_ACCEL)
           /\ held_ticks < SteerTicks => angular_speed # FNeg(MAX_STEER)
           /\ held_ticks >= SteerTicks => angular_speed = FNeg(MAX_STEER)

C3_Witness == pc = "loop" /\ active_keys = {"a"} /\ held_ticks = 1

\* C4: from rest with only the forward key active in every resolution,
\* linear speed first equals MAX_SPEED after exactly AccelTicks control
\* ticks; until then it never decreases from one iteration to the next,
\* never exceeds MAX_SPEED, and angular speed stays 0.
C4_State ==
    (pc = "loop" /\ active_keys = {"w"} /\ held_ticks # NoRun)
        => /\ angular_speed = FZero
           /\ FLe(linear_speed, MAX_SPEED)
           /\ held_ticks < AccelTicks => FLt(linear_speed, MAX_SPEED)
           /\ held_ticks >= AccelTicks => linear_speed = MAX_SPEED

C4_Step ==
    (/\ pc = "loop" /\ active_keys = {"w"} /\ held_ticks # NoRun
     /\ pc' = "loop" /\ active_keys' = {"w"} /\ held_ticks' # NoRun)
        => FGe(linear_speed', linear_speed)

C4_ForwardAcceleration == [] C4_State /\ [][C4_Step]_vars

C4_Witness ==
    /\ pc = "loop" /\ active_keys = {"w"} /\ held_ticks = AccelTicks
    /\ linear_speed = MAX_SPEED /\ sent = <<MAX_SPEED, FZero>>

\* C5: when the shutdown starts from linear = MAX_SPEED, angular = 0, every
\* ramp step dispatches a |linear| strictly below the one before, the ramp
\* ends with linear = 0 after at most AccelTicks steps, and after it
\* exactly one final (0, 0) command is sent.
RampFromMax == ramp_from = <<MAX_SPEED, FZero>>

C5_State ==
    RampFromMax
        => /\ ramp_ticks <= AccelTicks
           /\ pc \in {"final", "join", "done"} => linear_speed = FZero
           /\ pc \in {"ramp", "final"} => finals = 0
           /\ pc \in {"join", "done"} => (finals = 1 /\ sent = Zero2)

C5_Step ==
    (RampFromMax /\ pc = "ramp" /\ pc' = "ramp" /\ ramp_ticks' # ramp_ticks)
        => /\ sent'[1] = linear_speed'
           /\ FLt(FAbs(linear_speed'), FAbs(linear_speed))

C5_ShutdownRamp == [] C5_State /\ [][C5_Step]_vars

C5_Witness ==
    /\ pc = "done" /\ RampFromMax /\ ramp_ticks = AccelTicks /\ finals = 1

\* C8: after a resolution without the stop key: forward and backward both
\* active give a non-negative linear target (forward wins); left active
\* gives the angular target -MAX_STEER, also when right is active too
\* (left wins); right without left gives +MAX_STEER; neither gives 0.
C8_FirstCheckedWins ==
    (pc = "loop" /\ " " \notin active_keys)
        => /\ {"w", "s"} \subseteq active_keys => FGe(target_linear, FZero)
           /\ "a" \in active_keys => target_angular = FNeg(MAX_STEER)
           /\ ("d" \in active_keys /\ "a" \notin active_keys)
                  => target_angular = MAX_STEER
           /\ ("a" \notin active_keys /\ "d" \notin active_keys)
                  => target_angular = FZero

C8_Witness ==
    /\ pc = "loop" /\ active_keys = {"w", "s", "a", "d"}
    /\ target_angular = FNeg(MAX_STEER) /\ FGt(target_linear, FZero)

\* C9: after a resolution without the stop key in which left or right is
\* active, the linear target is +MIN_TURN_SPEED when forward is active or
\* backward is not, and -MIN_TURN_SPEED when backward is active and forward
\* is not; a nonzero angular target never comes with |target_linear| below
\* MIN_TURN_SPEED.
C9_TurnBoost ==
    pc = "loop"
        => /\ (/\ " " \notin active_keys
               /\ ("a" \in active_keys \/ "d" \in active_keys))
                  => target_linear =
                         IF "w" \in active_keys \/ "s" \notin active_keys
                         THEN MIN_TURN_SPEED ELSE FNeg(MIN_TURN_SPEED)
           /\ target_angular # FZero
                  => FGe(FAbs(target_linear), MIN_TURN_SPEED)

C9_Witness ==
    /\ pc = "loop" /\ active_keys = {"s", "d"}
    /\ target_linear = FNeg(MIN_TURN_SPEED) /\ target_angular = MAX_STEER

\* C10: the targets a resolution leaves depend on the active-key snapshot
\* alone: they are the targets the resolver yields from that snapshot when
\* it starts from rest with zero targets, from the present state (a second
\* resolution), and from full reverse speed with the opposite targets.
TargetsOf(v) == <<v.target_linear, v.target_angular>>

C10_ResolutionPure ==
    pc = "loop"
        => \A v \in {Velocity(FZero, FZero, FZero, FZero),
                     velocity,
                     Velocity(FNeg(MAX_SPEED), MAX_STEER,
                              FNeg(MAX_SPEED), MAX_STEER)} :
              TargetsOf(update_targets(active_keys, v))
                  = <<target_linear, target_angular>>

\* a resolution from no key at all while the rover still moves and turns
C10_Witness ==
    /\ pc = "loop" /\ active_keys = {}
    /\ linear_speed # FZero /\ angular_speed # FZero
    /\ target_linear = FZero /\ target_angular = FZero

\* C11: from every velocity the loop can be left at, the shutdown ramp ends
\* after at most max(AccelTicks, SteerTicks) ramp steps, exactly one final
\* stop command follows it, and the last pair given to the motor sink when
\* run() ends is (0, 0).
RampBound == IF AccelTicks > SteerTicks THEN AccelTicks ELSE SteerTicks

C11_RampTerminates ==
    /\ ramp_ticks <= RampBound
    /\ (pc = "ramp" /\ ramp_ticks = RampBound) => ~RampContinues(velocity)
    /\ pc \in {"final", "join", "done"} => ~RampContinues(velocity)
    /\ pc \in {"join", "done"} => (sent = Zero2 /\ finals = 1)

\* the longest ramp, begun in full reverse while turning right
C11_Witness ==
    /\ pc = "done" /\ ramp_from = <<FNeg(MAX_SPEED), MAX_STEER>>
    /\ ramp_ticks = RampBound /\ sent = Zero2

C13_Claim == exc = "tick" => (running /\ pc \in LoopPcs)

\* C14 as stated: after the motor sink raised on a command of the shutdown
\* ramp, the final (0, 0) command is still attempted, and the terminal is
\* restored when the process ends.
C14_Claim ==
    (exc = "ramp" /\ pc \in {"exit", "dead"})
        => (finals >= 1 /\ (pc = "dead" => term = "cooked"))

\* C15: when BaseController(...) raises at startup the process exits with
\* status 1, and the input thread was never started, the control loop never
\* entered, the terminal mode never changed and no command dispatched.
C15_StartupFailure ==
    exc = "startup"
        => /\ pc \in {"exit", "dead"} /\ ExitStatus = 1
           /\ in_pc = "init" /\ term = "cooked" /\ nread = 0
           /\ sent = <<>> /\ finals = 0
           /\ running /\ ~stop_event /\ active_keys = {} /\ ~ticked

C15_Witness == exc = "startup" /\ pc = "dead" /\ in_pc = "init"

\* C16: whenever the input thread has left _read_input (by a quit key, by
\* the stop event or by an exception raised in its try block) the terminal
\* is back in the saved mode; the terminal is raw exactly from tty.setraw
\* until the tcsetattr of the finally clause, i.e. only while the thread is
\* in its loop or on its way out of it (or was ended there with the
\* process).
C16_TerminalRestored ==
    /\ in_pc = "done" => term = "cooked"
    /\ in_pc \in {"init", "setraw"} => term = "cooked"
    /\ in_pc \in {"poll", "lock", "write"} => term = "raw"
    /\ term = "raw" => in_pc \in {"poll", "lock", "write", "restore", "killed"}

\* the thread ended by an exception while the control loop goes on
C16_Witness ==
    /\ in_pc = "done" /\ in_exc /\ term = "cooked" /\ nread = 1
    /\ pc \in LoopPcs /\ running /\ ~stop_event

\* C17: the step that reads a quit symbol sets running to false and leaves
\* the input loop without touching the registry, and nothing is read or
\* recorded by the input thread afterwards; running never becomes true
\* again; and under fair scheduling the control loop then leaves its main
\* loop and goes through the whole shutdown sequence: the stop event is set,
\* the final stop command sent and run() returns.
C17_State ==
    /\ (nread > 0 /\ ch \in QuitKeys) => ~running
    /\ ~running => (ch \in QuitKeys /\ in_pc \in {"restore", "done"})

C17_Step ==
    /\ (running /\ ~running')
           => (in_pc = "poll" /\ in_pc' = "restore" /\ key_states' = key_states)
    /\ ~running => (~running' /\ nread' = nread /\ ch' = ch)

C17_ShutdownDone == pc = "done" /\ stop_event /\ finals = 1 /\ sent = Zero2

\* what is left of run() at each position once running is false
C17_Left ==
    [acquire |-> 12, reading |-> 11, tick |-> 10, status |-> 9,
     status_reading |-> 8, sleep |-> 7, loop |-> 6, finally |-> 5, ramp |-> 4,
     final |-> 3, join |-> 2, done |-> 0]

\* a step of the control thread after the quit brings it closer to the end
\* of run(): its position advances, or time passed in its sleep (a stored
\* reading aged towards Oldest), or a ramp step lowered a speed
C17_Closer ==
    \/ C17_Left[pc'] < C17_Left[pc]
    \/ /\ pc = "sleep" /\ pc' = "sleep"
       /\ last_update' <= last_update
       /\ \A k \in DOMAIN key_states : key_states'[k] <= key_states[k]
       /\ \/ last_update' < last_update
          \/ \E k \in DOMAIN key_states : key_states'[k] < key_states[k]
    \/ /\ pc = "ramp" /\ pc' = "ramp"
       /\ FLe(FAbs(linear_speed'), FAbs(linear_speed))
       /\ FLe(FAbs(angular_speed'), FAbs(angular_speed))
       /\ \/ FLt(FAbs(linear_speed'), FAbs(linear_speed))
          \/ FLt(FAbs(angular_speed'), FAbs(angular_speed))

\* after the quit the control thread is not blocked: it can take a step, or
\* it waits in join for the input thread, which can take its last step
C17_NotBlocked ==
    (~running /\ pc # "done")
        => \/ ENABLED <<MainStep>>_vars
           \/ (pc = "join" /\ in_pc = "restore" /\ ENABLED InputRestore)

C17_Progress ==
    (~running /\ in_pc' = in_pc) => (pc \in DOMAIN C17_Left /\ C17_Closer)

\* C17, in the form of a proof of termination: the steps of C17_Step, and
\* from the quit on the control thread is never blocked and each of its
\* steps brings it closer to the end of run(), where the shutdown sequence
\* is through; with every thread scheduled again and again it gets there.
C17_QuitNotLost ==
    /\ [] (C17_State /\ C17_NotBlocked)
    /\ [] (pc = "done" => C17_ShutdownDone)
    /\ [][C17_Step /\ C17_Progress]_vars

\* the same by TLC's liveness check under FairSpec (MaxInput = 1)
C17_Eventually == ~running ~> C17_ShutdownDone

\* the shutdown that an escape keystroke started is through
C17_Witness == C17_ShutdownDone /\ ~running /\ ch = "esc" /\ in_pc = "done"

\* C18 as stated: in basic_drive.py every pair given to the motor sink
\* satisfies |linear| <= MAX_SPEED and |angular| <= MAX_STEER of that
\* variant.
C18_Claim ==
    sent # <<>>
        => /\ FLe(FAbs(sent[1]), BASIC_MAX_SPEED)
           /\ FLe(FAbs(sent[2]), BASIC_MAX_STEER)

\* C19: after a control tick that smoothed with a turn in effect
\* (|target_angular| > 0.01) and |target_linear| >= MIN_TURN_SPEED, the
\* linear speed is MIN_TURN_SPEED with the sign of target_linear, whatever
\* the linear speed was when the smoothing began.
C19_TurnJump ==
    (/\ pc = "loop" /\ ticked
     /\ FGt(FAbs(target_angular), Epsilon)
     /\ FGe(FAbs(target_linear), MIN_TURN_SPEED))
        => linear_speed = (IF FGt(target_linear, FZero)
                           THEN MIN_TURN_SPEED
                           ELSE FNeg(MIN_TURN_SPEED))

\* a backward turn right after forward motion: the tick began with a
\* positive linear speed and ended at -MIN_TURN_SPEED
C19_Witness ==
    /\ pc = "loop" /\ ticked /\ prev_sign = 1
    /\ FGt(FAbs(target_angular), Epsilon)
    /\ target_linear = FNeg(MIN_TURN_SPEED)
    /\ linear_speed = FNeg(MIN_TURN_SPEED)

\* the steps that run smooth_speed_update: a loop iteration with a control
\* tick, and a step of the shutdown ramp
C20_SmoothingStep ==
    \/ pc = "loop" /\ pc' = "loop" /\ running' /\ ticked'
    \/ pc = "ramp" /\ pc' = "ramp"

\* the linear speed as the smoothing finds it: the stop key has zeroed it
C20_Before ==
    IF pc = "loop" /\ " " \in active_keys' THEN FZero ELSE linear_speed

\* C20: in every smoothing step with no turn in effect (|target_angular| <=
\* 0.01), shutdown-ramp steps included, the linear speed becomes
\* target_linear when the gap is below LINEAR_ACCEL, and otherwise moves by
\* LINEAR_ACCEL (one floating-point addition) towards the target without
\* passing it.
C20_Step ==
    (C20_SmoothingStep /\ ~FGt(FAbs(target_angular'), Epsilon))
        => IF FLt(FAbs(FSub(target_linear', C20_Before)), LINEAR_ACCEL)
           THEN linear_speed' = target_linear'
           ELSE IF FLt(C20_Before, target_linear')
           THEN /\ linear_speed' = FAdd(C20_Before, LINEAR_ACCEL)
                /\ FLe(linear_speed', target_linear')
           ELSE /\ linear_speed' = FSub(C20_Before, LINEAR_ACCEL)
                /\ FGe(linear_speed', target_linear')

C20_LinearRamp == [][C20_Step]_vars

C20_Witness ==
    /\ pc = "loop" /\ ticked /\ active_keys = {"w"} /\ held_ticks = 1
    /\ target_linear = MAX_SPEED /\ target_angular = FZero
    /\ linear_speed = LINEAR_ACCEL

\* the angular speed as the smoothing finds it: the stop key has zeroed it
C21_Before ==
    IF pc = "loop" /\ " " \in active_keys' THEN FZero ELSE angular_speed

\* b lies between a and c, ends included
C21_Between(a, b, c) ==
    \/ FLe(a, b) /\ FLe(b, c)
    \/ FGe(a, b) /\ FGe(b, c)

\* C21: in every smoothing step (control tick or ramp step) the new angular
\* speed lies between the old one and target_angular, is the target when
\* the gap was below ANGULAR_ACCEL and otherwise one ANGULAR_ACCEL (one
\* floating-point addition) nearer to it; an angular speed that equals the
\* target stays there; and a step that changes the angular speed otherwise
\* is an iteration whose resolution had the stop key active.
C21_Step ==
    /\ C20_SmoothingStep
         => /\ C21_Between(C21_Before, angular_speed', target_angular')
            /\ IF FLt(FAbs(FSub(target_angular', C21_Before)), ANGULAR_ACCEL)
               THEN angular_speed' = target_angular'
               ELSE angular_speed' \in {FAdd(C21_Before, ANGULAR_ACCEL),
                                        FSub(C21_Before, ANGULAR_ACCEL)}
            /\ C21_Before = target_angular' => angular_speed' = target_angular'
    /\ angular_speed' # angular_speed
         => \/ C20_SmoothingStep /\ C21_Before = angular_speed
            \/ /\ pc = "loop" /\ " " \in active_keys'
               /\ angular_speed' = FZero /\ target_angular' = FZero

C21_AngularRamp == [][C21_Step]_vars

\* the snap: the angular speed has reached the target of a held right turn
C21_Witness ==
    /\ pc = "loop" /\ ticked /\ active_keys = {"d"}
    /\ held_ticks = SteerTicks
    /\ angular_speed = target_angular /\ target_angular # FZero

\* a step that gives a command to the motor sink after an earlier one: a
\* loop iteration with a control tick, a ramp step, the final stop
C22_Dispatch ==
    /\ sent # <<>>
    /\ \/ pc = "loop" /\ pc' = "loop" /\ running' /\ ticked'
       \/ pc = "ramp" /\ pc' = "ramp"
       \/ pc = "final" /\ pc' = "join"

\* new is old, or one smoothing step of size accel away from it
C22_Ramped(old, new, accel) ==
    \/ new = old
    \/ new = FAdd(old, accel)
    \/ new = FSub(old, accel)
    \/ FLt(FAbs(FSub(new, old)), accel)

\* the stop key was active in a resolution since the last dispatch: in the
\* resolution of this iteration, or in one of an iteration without a tick,
\* which left the live velocity at rest and different from the last command
C22_StopBetween ==
    \/ pc = "loop" /\ " " \in active_keys'
    \/ <<linear_speed, angular_speed>> # sent

\* the live velocity comes to differ from the last command only by a
\* resolution with the stop key active
C22_OnlyStopParts ==
    (/\ pc' \in {"loop", "ramp"} /\ sent' # <<>>
     /\ <<linear_speed', angular_speed'>> # sent'
     /\ ~(UNCHANGED <<linear_speed, angular_speed, sent>>))
        => /\ pc = "loop" /\ " " \in active_keys' /\ ~ticked'
           /\ linear_speed' = FZero /\ angular_speed' = FZero
           /\ sent' = sent

\* C22 as stated: between two consecutive dispatches linear speed changes
\* by more than LINEAR_ACCEL, or angular speed by more than ANGULAR_ACCEL,
\* only if the stop key was active in a resolution between them.
C22_Original ==
    [][C22_Dispatch
         => \/ /\ C22_Ramped(sent[1], sent'[1], LINEAR_ACCEL)
               /\ C22_Ramped(sent[2], sent'[2], ANGULAR_ACCEL)
            \/ C22_StopBetween]_vars

\* C22 amended: between two consecutive dispatches angular speed changes by
\* more than ANGULAR_ACCEL only if the stop key was active in a resolution
\* between them, and linear speed changes by more than LINEAR_ACCEL only if
\* the stop key was active in a resolution between them or a turn was in
\* effect (|target_angular| > 0.01) in the smoothing step of the later
\* dispatch.
C22_Step ==
    /\ C22_OnlyStopParts
    /\ C22_Dispatch
         => /\ \/ C22_Ramped(sent[2], sent'[2], ANGULAR_ACCEL)
               \/ C22_StopBetween
            /\ \/ C22_Ramped(sent[1], sent'[1], LINEAR_ACCEL)
               \/ C22_StopBetween
               \/ pc = "loop" /\ FGt(FAbs(target_angular'), Epsilon)

C22_InstantChanges == [][C22_Step]_vars

\* a turn begun at rest: the dispatch after a (0, 0) command carries
\* MIN_TURN_SPEED, and no stop key was active
C22_Witness ==
    /\ pc = "loop" /\ ticked /\ prev_sign = 0 /\ active_keys = {"d"}
    /\ held_ticks = 1
    /\ sent = <<MIN_TURN_SPEED, ANGULAR_ACCEL>>

\* the number of control ticks with targets (0, 0) that bring v to rest,
\* counted up to n
RECURSIVE C23_TicksToRest(_, _)
C23_TicksToRest(v, n) ==
    IF AtRest(v) \/ n = 0 THEN 0
    ELSE 1 + C23_TicksToRest(smooth_speed_update(ResetTargets(v)), n - 1)

\* a loop iteration whose snapshot of the active keys is empty
C23_IdleIteration ==
    pc = "loop" /\ pc' = "loop" /\ running' /\ active_keys' = {}

C23_Step ==
    C23_IdleIteration
        => /\ target_linear' = FZero /\ target_angular' = FZero
           /\ ~ticked' => UNCHANGED <<linear_speed, angular_speed, sent>>
           /\ ticked'
                => /\ FLe(FAbs(linear_speed'), FAbs(linear_speed))
                   /\ FLe(FAbs(angular_speed'), FAbs(angular_speed))
                   /\ sent' = <<linear_speed', angular_speed'>>
                   /\ AtRest(velocity)
                        => linear_speed' = FZero /\ angular_speed' = FZero
                   /\ \E n \in {C23_TicksToRest(velocity, RampBound + 1)} :
                         /\ n <= RampBound
                         /\ n > 0 =>
                              /\ \/ FLt(FAbs(linear_speed'), FAbs(linear_speed))
                                 \/ FLt(FAbs(angular_speed'), FAbs(angular_speed))
                              /\ C23_TicksToRest(
                                     [velocity EXCEPT
                                        !.linear_speed = linear_speed',
                                        !.angular_speed = angular_speed'],
                                     RampBound + 1) = n - 1

\* C23: in every loop iteration that finds no key active the targets are
\* (0, 0); a control tick of such an iteration does not raise |linear| or
\* |angular|, lowers one of them while the rover is not at rest, brings it
\* one tick nearer to rest, which is at most RampBound such ticks away, and
\* leaves a rover at rest at rest.
C23_IdleRampsDown == [][C23_Step]_vars

\* rest reached by idle ticks after forward motion
C23_Witness ==
    /\ pc = "loop" /\ ticked /\ active_keys = {} /\ prev_sign = 1
    /\ linear_speed = FZero /\ angular_speed = FZero /\ sent = Zero2

\* a step of the started input thread: its position, its character, its
\* count of reads or the terminal mode changes
C24_InputMoves ==
    /\ in_pc # "init"
    /\ <<in_pc, ch, nread, term>>' # <<in_pc, ch, nread, term>>

\* C24: every step of the input thread leaves linear_speed, angular_speed,
\* target_linear and target_angular unchanged and gives nothing to the
\* motor sink; of the state the threads share it writes only the registry
\* (under its lock) and the running flag; every step that changes the
\* velocity state or the last command leaves the input thread where it is.
C24_Step ==
    /\ C24_InputMoves
         => /\ UNCHANGED <<velvars, sent, finals, stop_event, pc, loopvars>>
            /\ key_states' # key_states => (in_pc = "write" /\ lock = "input")
            /\ running' # running => (in_pc = "poll" /\ ~running')
    /\ (velvars' # velvars \/ sent' # sent \/ finals' # finals)
         => (~C24_InputMoves /\ pc \in {"reading", "tick", "ramp", "final"})

C24_VelocityOwned == [][C24_Step]_vars

\* the input thread has just recorded the forward key: the velocity and the
\* last command are as the control thread's tick left them
C24_Witness ==
    /\ in_pc = "poll" /\ ch = "w" /\ nread = 1
    /\ "w" \in DOMAIN key_states /\ key_states["w"] = Now
    /\ pc = "sleep" /\ ticked /\ active_keys = {}
    /\ linear_speed = FZero /\ target_linear = FZero /\ sent = Zero2

\* C25 as stated: the registry only ever holds entries for the five
\* movement symbols w, a, s, d and space.
C25_Claim == DOMAIN key_states \subseteq MoveKeys

\* the control tick of an iteration: smoothing and dispatch (lines 247-250)
C26_Tick == pc = "tick" /\ pc' = "status"

\* C26: in the main loop a control tick is entered only from the
\* resolution of the same iteration, which took the snapshot of the active
\* keys and resolved the targets from it; the tick smooths the velocity
\* once against these targets and dispatches the smoothed velocity; the
\* last command and, but for the emergency stop of a resolution, the live
\* velocity change in no other step of the loop; and after its tick the
\* iteration has no second one.
C26_Step ==
    /\ (pc' = "tick" /\ pc # "tick")
         => /\ pc = "reading"
            /\ active_keys' = get_active_keys(key_states, Now).active
            /\ velocity' = update_targets(active_keys', velocity)
            /\ TickDue(Now, last_update)
    /\ C26_Tick
         => /\ TargetsOf(velocity) = TargetsOf(update_targets(active_keys, velocity))
            /\ velocity' = smooth_speed_update(velocity)
            /\ sent' = <<linear_speed', angular_speed'>>
            /\ ticked'
    /\ (pc \in LoopPcs /\ pc' \in LoopPcs /\ (sent' # sent \/ (ticked' /\ ~ticked)))
         => C26_Tick
    /\ (pc \in LoopPcs /\ <<linear_speed, angular_speed>>' # <<linear_speed, angular_speed>>)
         => \/ C26_Tick
            \/ /\ pc = "reading" /\ " " \in active_keys'
               /\ linear_speed' = FZero /\ angular_speed' = FZero
    /\ pc = "tick" => pc' \in {"tick", "status", "finally"}
    /\ pc \in {"status", "status_reading", "sleep"}
         => pc' \in {"status", "status_reading", "sleep", "loop", "finally"}

C26_TickOrder == [][C26_Step]_vars

\* the first tick with the forward key active has run
C26_Witness ==
    /\ pc = "status" /\ ticked /\ active_keys = {"w"}
    /\ target_linear = MAX_SPEED /\ linear_speed = LINEAR_ACCEL
    /\ sent = <<LINEAR_ACCEL, FZero>>

\* C27 as stated, for a stop key recorded in the present quantum of time
\* (no command has been dispatched since the recording): the command that
\* a control tick dispatches while the loop runs is (0, 0).
C27_Claim ==
    [][(/\ pc = "tick" /\ pc' = "status"
        /\ " " \in DOMAIN key_states /\ key_states[" "] = Now)
           => sent' = Zero2]_vars

C28_IsPrefix(a, b) ==
    /\ Len(a) <= Len(b)
    /\ \A i \in 1..Len(a) : a[i] = b[i]

\* nothing is on its way from the input thread to handle_input
C28_Quiet == input_char = "" /\ pc # "b_handle" /\ in_pc # "b_store"

\* C28 as stated: in basic_drive.py, while the main loop runs, the
\* characters handle_input has dispatched on are the characters read, in
\* their order, each once, and all of them once nothing is on its way.
C28_Claim ==
    pc \in BasicLoopPcs
        => /\ C28_IsPrefix(keys_handled, keys_read)
           /\ C28_Quiet => keys_handled = keys_read

C29_State ==
    /\ stop_event <=> pc = "b_done"
    /\ pc = "b_done" => sent = Zero2
    /\ pc = "b_finally" => ENABLED BasicFinally

C29_Step ==
    /\ (pc \in BasicLoopPcs /\ pc' \notin BasicLoopPcs) => pc' = "b_finally"
    /\ (pc = "b_loop" /\ ~running) => pc' \in {"b_loop", "b_finally"}
    /\ pc = "b_finally"
         => \/ pc' = "b_finally" /\ sent' = sent
            \/ pc' = "b_done" /\ stop_event' /\ sent' = Zero2
    /\ pc = "b_done" => (pc' = "b_done" /\ sent' = sent)

\* C29: in basic_drive.py the main loop is left only into the finally
\* block, after a handled quit key as soon as the loop condition is tested
\* or by an interrupt; the finally block can always run; it sets the stop
\* event and sends (0, 0), and nothing is sent after that: when run()
\* returns the last command is (0, 0).
C29_LastCommand == [] C29_State /\ [][C29_Step]_vars

\* a quit key handled while the rover drives forward: run() has returned
\* after the stop command
C29_Witness ==
    /\ pc = "b_done" /\ ~running /\ stop_event
    /\ keys_handled = <<"w", "q">>
    /\ linear_speed = BASIC_MAX_SPEED /\ sent = Zero2

\* C30 as stated, at the end of the process: every worker that was
\* started, and whose calls of the motor sink did not raise, has ended by
\* giving the stop command (0, 0).
C30_Claim ==
    pc = "t_dead"
        => \A w \in Workers :
              (workers[w].at # "none" /\ ~workers[w].raised)
                  => workers[w].at = "done"

\* C6: every call of get_active_keys (from update_targets and from
\* print_status) leaves in the registry exactly the entries with
\* now - lastSeen < KEY_TIMEOUT, unchanged, deletes every other entry, and
\* the set it returns is the set of keys it leaves.
MainReading == pc \in {"reading", "status_reading"}

C6_Step ==
    (MainReading /\ pc' \notin {"reading", "status_reading", "finally"})
        => /\ DOMAIN key_states'
                 = {k \in DOMAIN key_states : Now - key_states[k] < KEY_TIMEOUT}
           /\ \A k \in DOMAIN key_states' : key_states'[k] = key_states[k]
           /\ pc = "reading" => active_keys' = DOMAIN key_states'

C6_ActiveKeys == [][C6_Step]_vars

\* the one key that was recorded has been deleted by a call that found it
\* expired
C6_Witness ==
    /\ nread = 1 /\ ch = "w" /\ in_pc = "poll"
    /\ pc = "sleep" /\ key_states = EmptyRegistry /\ active_keys = {}

\* C7: the write of the input thread and the read-and-prune of the control
\* loop never overlap and each runs with the lock held from its first to
\* its last step; the registry does not change while the control loop
\* iterates over it; no state is a deadlock: a thread that waits for the
\* lock can take it, or the other thread stands in its critical section and
\* can leave it; and the holder of the lock never waits: the next step it
\* takes gives the lock back.
C7_State ==
    /\ (lock = "input") <=> (in_pc = "write")
    /\ (lock = "main") <=> MainReading
    /\ ~(in_pc = "write" /\ MainReading)
    /\ MainReading => key_states = iter_view
    /\ in_pc = "lock"
           => (ENABLED InputAcquire \/ ENABLED Resolve \/ ENABLED StatusRead)
    /\ pc \in {"acquire", "status"}
           => (ENABLED Acquire \/ ENABLED StatusAcquire \/ ENABLED InputWrite)

C7_Step ==
    /\ (lock = "main" /\ pc' # pc) => lock' = "free"
    /\ (lock = "input" /\ in_pc' # in_pc) => lock' = "free"

C7_MutualExclusion == [] C7_State /\ [][C7_Step]_vars

\* the control loop waits for the lock while the input thread writes a key
C7_Witness ==
    /\ pc \in {"acquire", "status"} /\ in_pc = "write" /\ lock = "input"
    /\ ch = "w"

=============================================================================
